---- MODULE Spec2Model ----
(***************************************************************************)
(* A model of tools/write_pyi.py: the regeneration of a .pyi stub file     *)
(* for a proxied class (run_file / generate_pyi_for_proxy).                *)
(*                                                                         *)
(* Text is modelled line by line.  A line is a tuple of tokens:            *)
(*   "OPEN"  the text "# ### this file stubs are generated by"             *)
(*   "PROG"  the text " <progname> - do not edit ###"                      *)
(*   "END"   the text "### end imports ###"                                *)
(*   "SP"    a whitespace character                                        *)
(*   any other token is ordinary text.                                     *)
(* A file is either NoFile (the path does not exist) or a record of its    *)
(* lines and of the formatting passes that have rewritten it.              *)
(***************************************************************************)
EXTENDS Integers, Sequences, FiniteSets, TLC

VARIABLES
    real,      \* the file at source_path (the real stub file)
    tmp,       \* the NamedTemporaryFile of streaming mode
    cls,       \* cls_to_generate: its members in declaration order
    ignore,    \* ignore_items
    stdout,    \* the stdout flag of the current run_file call
    pc,        \* position in run_file / generate_pyi_for_proxy
    imports,   \* the list `imports` of generate_pyi_for_proxy
    printer,   \* the PythonPrinter: line_buffer, in_indent_lines
    bufOpen,   \* whether the handle `buf` on the destination is open
    names,     \* the list dir(cls) that the member loop iterates over
    idx,       \* position of the `for name in dir(cls)` loop
    calls,     \* console_scripts invocations of the current run, in order
    out,       \* what the current run wrote to sys.stdout
    err,       \* the exception that left run_file, or "none"
    given,     \* history: the source's header block when the run started
    prev       \* history: the artifact the run before this one left, if that
               \* run (or the last in-place run before it) succeeded in place

vars == <<real, tmp, cls, ignore, stdout, pc, imports, printer, bufOpen,
          names, idx, calls, out, err, given, prev>>

----------------------------------------------------------------------------
(* Bounds *)

MaxLines == 3

MaxMembers == 2

----------------------------------------------------------------------------
(* Text *)

NoFile == [exists |-> FALSE]

NoText == [written |-> FALSE]

File(ls, ps) == [exists |-> TRUE, lines |-> ls, passes |-> ps]

OpenLine == <<"OPEN", "PROG">>

EndLine == <<"END">>

Blank == <<>>

LineSet ==
    { OpenLine, EndLine, <<"END", "x">>, <<"x">>, <<"y">>, <<"x", "SP">> }

StartsWith(line, tok) == Len(line) >= 1 /\ line[1] = tok

RECURSIVE RStrip(_)
RStrip(line) ==
    IF Len(line) > 0 /\ line[Len(line)] = "SP"
    THEN RStrip(SubSeq(line, 1, Len(line) - 1))
    ELSE line

SeqsUpTo(S, n) == UNION { [1..k -> S] : k \in 0..n }

----------------------------------------------------------------------------
(* The class being stubbed *)

NoAnn == [present |-> FALSE, module |-> "", isType |-> FALSE,
          qualname |-> "", repr |-> <<>>]

ClassAnn(m, q) == [present |-> TRUE, module |-> m, isType |-> TRUE,
                   qualname |-> q, repr |-> <<"<class ", m, ".", q, ">">>]

TypingAnn(r) == [present |-> TRUE, module |-> "typing", isType |-> FALSE,
                 qualname |-> "", repr |-> r]

OtherAnn(r) == [present |-> TRUE, module |-> "", isType |-> FALSE,
                qualname |-> "", repr |-> r]

Param(n, a) == [name |-> n, ann |-> a]

Sig(ps, r) == [params |-> ps, ret |-> r]

\* cls.__module__ of the class being stubbed
ClsModule == "alembic.operations.base"

Attr(n) == [name |-> n, callable |-> FALSE, chain |-> <<>>]

\* chain[1] is getattr(cls, name); chain[i+1] is chain[i].__wrapped__
Meth(n, ch) == [name |-> n, callable |-> TRUE, chain |-> ch]

Members ==
    { Meth("_proxy", << Sig(<<Param("x", NoAnn)>>, NoAnn) >>),
      Meth("alter", << Sig(<<Param("self", NoAnn),
                             Param("t", ClassAnn(ClsModule, "Table"))>>,
                           ClassAnn("builtins", "NoneType")) >>),
      Attr("config"),
      Meth("drop", << Sig(<<Param("op", NoAnn)>>, NoAnn) >>),
      Meth("drop", << Sig(<<>>, NoAnn) >>),
      Meth("get_impl", << Sig(<<>>, NoAnn),
                          Sig(<<Param("cls", NoAnn),
                                Param("n", ClassAnn("builtins", "int"))>>,
                              ClassAnn("sqlalchemy", "Column")) >>) }

MemberNames == { m.name : m \in Members }

\* Python's str ordering (by code point) of the names used: "_" sorts
\* before the lower-case letters
NameOrder == <<"_proxy", "alter", "config", "drop", "get_impl">>

Rank(n) == CHOOSE i \in 1..Len(NameOrder) : NameOrder[i] = n

Injective(f) == \A i, j \in DOMAIN f : f[i] = f[j] => i = j

\* a class body: members in declaration order, no name bound twice
Classes ==
    { c \in SeqsUpTo(Members, MaxMembers) :
        Injective([i \in DOMAIN c |-> c[i].name]) }

\* the values of IGNORE_ITEMS: the sets for "op" and for "context"
IGNORE_ITEMS ==
    { {"context", "create_module_class_proxy"},
      {"config", "create_module_class_proxy", "get_impl",
       "requires_connection", "script"} }

\* name.startswith("_")
StartsWithUnderscore(n) == n \in {"_proxy"}

NamesOf(c) == { c[i].name : i \in DOMAIN c }

GetAttr(c, n) == c[CHOOSE i \in DOMAIN c : c[i].name = n]

RECURSIVE SortNames(_)
SortNames(S) ==
    IF S = {} THEN <<>>
    ELSE LET m == CHOOSE a \in S : \A b \in S : Rank(a) <= Rank(b)
         IN  <<m>> \o SortNames(S \ {m})

\* variant: the names in declaration order (cls.__dict__ instead of dir)
Dir_Declared(c) == [i \in DOMAIN c |-> c[i].name]

\* dir(cls): the attribute names, sorted
Dir(c) == SortNames(NamesOf(c))

----------------------------------------------------------------------------
(* generate_pyi_for_proxy: reading the header block *)

\* the `for line in read_file` loop; i is the next line, reading is
\* read_imports, acc is imports
RECURSIVE ScanImports(_, _, _, _)
ScanImports(lines, i, reading, acc) ==
    IF i > Len(lines) THEN acc
    ELSE IF StartsWith(lines[i], "OPEN")
         THEN ScanImports(lines, i + 1, TRUE, acc)
    ELSE IF StartsWith(lines[i], "END")
         THEN acc
    ELSE IF reading
         THEN ScanImports(lines, i + 1, reading, Append(acc, RStrip(lines[i])))
    ELSE ScanImports(lines, i + 1, reading, acc)

\* variant: the opening sentinel test is an `if` of its own, so the sentinel
\* line falls through to the capture
RECURSIVE ScanKeepsOpening(_, _, _, _)
ScanKeepsOpening(lines, i, reading, acc) ==
    IF i > Len(lines) THEN acc
    ELSE IF StartsWith(lines[i], "END") /\ ~StartsWith(lines[i], "OPEN")
         THEN acc
    ELSE IF reading \/ StartsWith(lines[i], "OPEN")
         THEN ScanKeepsOpening(lines, i + 1, TRUE, Append(acc, RStrip(lines[i])))
    ELSE ScanKeepsOpening(lines, i + 1, reading, acc)

ReadImports_KeepsOpening(lines) == ScanKeepsOpening(lines, 1, FALSE, <<>>)

\* variant: read_imports starts True
ReadImports_Eager(lines) == ScanImports(lines, 1, TRUE, <<>>)

ReadImports(lines) == ScanImports(lines, 1, FALSE, <<>>)

----------------------------------------------------------------------------
(* _generate_stub_for_meth / _generate_stub_for_attr *)

\* while hasattr(fn, "__wrapped__"): fn = fn.__wrapped__
Unwrap(meth) == meth.chain[Len(meth.chain)]

\* variant: the assert only requires a first parameter
ReceiverOk_AnyFirst(sig) == Len(sig.params) >= 1

\* name_args[0:1] == ["self"] or name_args[0:1] == ["cls"]
ReceiverOk(sig) ==
    /\ Len(sig.params) >= 1
    /\ sig.params[1].name \in {"self", "cls"}

\* re.sub("NoneType", "None", retval), token by token
SubNoneType(toks) ==
    [i \in DOMAIN toks |-> IF toks[i] = "NoneType" THEN "None" ELSE toks[i]]

\* re.sub(r'ForwardRef\((['"].+?['"])\)', group 1, retval): the tokens
\* "ForwardRef(" and ")" around a quoted name are dropped
RECURSIVE SubForwardRef(_)
SubForwardRef(toks) ==
    IF Len(toks) = 0 THEN <<>>
    ELSE IF Len(toks) >= 3 /\ toks[1] = "ForwardRef(" /\ toks[3] = ")"
         THEN <<toks[2]>> \o SubForwardRef(SubSeq(toks, 4, Len(toks)))
    ELSE <<toks[1]>> \o SubForwardRef(SubSeq(toks, 2, Len(toks)))

\* repr(annotation).replace("typing.", "")
DropTyping(toks) == SelectSeq(toks, LAMBDA t : t /= "typing.")

\* base_module of None: no module's name
NoModule == "<None>"

FormatAnnotation(annotation, base_module) ==
    LET retval ==
            IF annotation.module = "typing" THEN DropTyping(annotation.repr)
            ELSE IF annotation.isType
                 THEN IF annotation.module \in {"builtins", base_module}
                      THEN <<annotation.qualname>>
                      ELSE <<annotation.module, ".", annotation.qualname>>
            ELSE annotation.repr
    IN  SubNoneType(SubForwardRef(retval))

\* inspect_formatargspec(*spec, formatvalue=..., formatannotation=
\* _formatannotation): it is handed the signature and the two callbacks, not
\* the class, and calls formatannotation(annotation) with one argument, so
\* base_module keeps its default, None
FormatParam(p) ==
    IF p.ann.present THEN <<p.name, ":">> \o FormatAnnotation(p.ann, NoModule)
    ELSE <<p.name>>

RECURSIVE FormatParams(_)
FormatParams(ps) ==
    IF Len(ps) = 0 THEN <<>>
    ELSE IF Len(ps) = 1 THEN FormatParam(ps[1])
    ELSE FormatParam(ps[1]) \o <<",">> \o FormatParams(Tail(ps))

FormatArgspec(ps, ret) ==
    <<"(">> \o FormatParams(ps) \o <<")">>
        \o (IF ret.present THEN <<"->">> \o FormatAnnotation(ret, NoModule)
            ELSE <<>>)

\* func_text split in lines: the def line, the docstring line, and the empty
\* string after the final newline.  name_args[0:1] = [] has dropped the
\* receiver from the argspec.
FuncText(name, sig) ==
    << <<"def", name>> \o FormatArgspec(Tail(sig.params), sig.ret) \o <<":">>,
       <<"'''", "doc", "'''">>,
       Blank >>

AttrText(name) == <<name, ":", "Any">>

----------------------------------------------------------------------------
(* mako.pygen.PythonPrinter, as used by the Stub Writer *)

NewPrinter == [line_buffer |-> <<>>, in_indent_lines |-> FALSE]

\* writeline(line): a block buffered by write_indented_block is flushed to
\* the stream first, then the line is written
WritelineText(p, line) ==
    (IF p.in_indent_lines THEN <<>> ELSE p.line_buffer) \o <<line>>

WritelinePrinter(p) ==
    IF p.in_indent_lines THEN p
    ELSE [line_buffer |-> <<>>, in_indent_lines |-> TRUE]

\* write_indented_block(block): the lines are buffered, nothing is written
WriteIndentedBlock(p, block) ==
    [line_buffer |-> p.line_buffer \o block, in_indent_lines |-> FALSE]

----------------------------------------------------------------------------
(* History: the header block of the source as a reader of the file sees it *)

IsOpeningLine(l) == StartsWith(l, "OPEN")

IsClosingLine(l) == l = EndLine

\* index of the first opening sentinel line in lines[from..], 0 if none
RECURSIVE FirstOpening(_, _)
FirstOpening(lines, from) ==
    IF from > Len(lines) THEN 0
    ELSE IF IsOpeningLine(lines[from]) THEN from
    ELSE FirstOpening(lines, from + 1)

\* index of the first closing sentinel line in lines[from..], 0 if none
RECURSIVE FirstClosing(_, _)
FirstClosing(lines, from) ==
    IF from > Len(lines) THEN 0
    ELSE IF IsClosingLine(lines[from]) THEN from
    ELSE FirstClosing(lines, from + 1)

\* "missing": no file; "nomarker": no opening sentinel line; "open": an
\* opening sentinel line and no closing sentinel line after it; "framed":
\* both, and H is the lines between them.  plain: the opening sentinel line
\* is the only line before the closing sentinel line that starts with the
\* text of a sentinel.
HeaderBlock(f) ==
    IF ~f.exists THEN [state |-> "missing", H |-> <<>>, plain |-> TRUE]
    ELSE LET o == FirstOpening(f.lines, 1)
             c == FirstClosing(f.lines, o + 1)
         IN  IF o = 0 THEN [state |-> "nomarker", H |-> <<>>, plain |-> TRUE]
             ELSE IF c = 0 THEN [state |-> "open", H |-> <<>>, plain |-> TRUE]
             ELSE [state |-> "framed",
                   H |-> SubSeq(f.lines, o + 1, c - 1),
                   plain |-> \A i \in 1..(c - 1) :
                                i /= o => /\ ~StartsWith(f.lines[i], "OPEN")
                                          /\ ~StartsWith(f.lines[i], "END")]

NoPrev == [known |-> FALSE]

----------------------------------------------------------------------------
(* The two external formatting passes (spec 4.6) *)

\* the import pass's canonical order: import "x" sorts before import "y"
ImportKey(l) == IF l = <<"x">> THEN 1 ELSE IF l = <<"y">> THEN 2 ELSE 0

RECURSIVE InsertByKey(_, _)
InsertByKey(sorted, l) ==
    IF Len(sorted) = 0 THEN <<l>>
    ELSE IF ImportKey(sorted[Len(sorted)]) <= ImportKey(l) THEN Append(sorted, l)
    ELSE Append(InsertByKey(SubSeq(sorted, 1, Len(sorted) - 1), l),
                sorted[Len(sorted)])

RECURSIVE CanonicalOrder(_)
CanonicalOrder(ls) ==
    IF Len(ls) = 0 THEN <<>>
    ELSE InsertByKey(CanonicalOrder(SubSeq(ls, 1, Len(ls) - 1)), ls[Len(ls)])

\* import-reorganization pass: the import section, which is the block
\* between the sentinel comments, is rewritten in canonical order
ZimportsText(lines) ==
    LET o == FirstOpening(lines, 1)
        c == FirstClosing(lines, o + 1)
    IN  IF o = 0 \/ c = 0 THEN lines
        ELSE SubSeq(lines, 1, o)
                 \o CanonicalOrder(SubSeq(lines, o + 1, c - 1))
                 \o SubSeq(lines, c, Len(lines))

\* style-normalization pass: canonical layout; no trailing whitespace and
\* no blank lines at the end of the file
RECURSIVE DropTrailingBlanks(_)
DropTrailingBlanks(lines) ==
    IF Len(lines) > 0 /\ lines[Len(lines)] = Blank
    THEN DropTrailingBlanks(SubSeq(lines, 1, Len(lines) - 1))
    ELSE lines

BlackText(lines) ==
    DropTrailingBlanks([i \in DOMAIN lines |-> RStrip(lines[i])])

----------------------------------------------------------------------------
(* run_file and generate_pyi_for_proxy *)

\* variant: the streaming branch passes source_path as the destination
DestPath_AlwaysSource(s) == "real"

\* destination_path: f.name when streaming, source_path otherwise
DestPath(s) == IF s THEN "tmp" ELSE "real"

Dest == IF DestPath(stdout) = "tmp" THEN tmp ELSE real

SetDest(f) ==
    IF DestPath(stdout) = "tmp"
    THEN tmp' = f /\ UNCHANGED real
    ELSE real' = f /\ UNCHANGED tmp

\* variant: the two calls in the other order
PassOrder_Swapped == <<"black", "zimports">>

\* the two console_scripts calls, in program order
PassOrder == <<"zimports", "black">>

\* console_scripts(path, {"entrypoint": e, ...}): the external formatter
\* rewrites the file in place; the pass is recorded on the file
ConsoleScripts(f, e) ==
    File(IF e = "zimports" THEN ZimportsText(f.lines) ELSE BlackText(f.lines),
         Append(f.passes, e))

\* variant: the ignore_items test is dropped
Skipped_PrefixOnly(name, ign) == StartsWithUnderscore(name)

\* name.startswith("_") or name in ignore_items
Skipped(name, ign) == StartsWithUnderscore(name) \/ name \in ign

\* variant: the closing sentinel is not written
HeadText_NoClosing(imps) == <<OpenLine>> \o imps \o <<Blank, Blank>>

HeadText(imps) == <<OpenLine>> \o imps \o <<EndLine, Blank, Blank>>

\* an exception leaves generate_pyi_for_proxy and run_file
Raise(e) ==
    /\ pc' = "raised"
    /\ err' = e
    /\ bufOpen' = FALSE

Init ==
    /\ real \in {NoFile} \cup { File(ls, <<>>) : ls \in SeqsUpTo(LineSet, MaxLines) }
    /\ tmp = NoFile
    /\ cls \in Classes
    /\ ignore \in IGNORE_ITEMS
    /\ stdout = FALSE
    /\ pc = "idle"
    /\ imports = <<>>
    /\ printer = NewPrinter
    /\ bufOpen = FALSE
    /\ names = <<>>
    /\ idx = 0
    /\ calls = <<>>
    /\ out = NoText
    /\ err = "none"
    /\ given = HeaderBlock(real)
    /\ prev = NoPrev

\* run_file(source_path, cls_to_generate, stdout, ignore_items), up to the
\* call of generate_pyi_for_proxy; streaming creates the temporary file
RunFile ==
    /\ pc \in {"idle", "done", "raised"}
    /\ \E s \in BOOLEAN :
        /\ stdout' = s
        /\ tmp' = IF s THEN File(<<>>, <<>>) ELSE tmp
    /\ pc' = "read"
    /\ imports' = <<>>
    /\ printer' = NewPrinter
    /\ bufOpen' = FALSE
    /\ names' = <<>>
    /\ idx' = 0
    /\ calls' = <<>>
    /\ out' = NoText
    /\ err' = "none"
    /\ given' = HeaderBlock(real)
    /\ prev' = IF stdout THEN prev
               ELSE IF pc = "done" THEN [known |-> TRUE, file |-> real]
               ELSE NoPrev
    /\ UNCHANGED <<real, cls, ignore>>

\* with open(source_path) as read_file: ... fails when the file is missing
ReadMissing ==
    /\ pc = "read"
    /\ ~real.exists
    /\ Raise("FileNotFoundError")
    /\ UNCHANGED <<names, real, tmp, cls, ignore, stdout, imports, printer, idx,
                   calls, out, given, prev>>

ReadHeader ==
    /\ pc = "read"
    /\ real.exists
    /\ imports' = ReadImports(real.lines)
    /\ pc' = "open"
    /\ UNCHANGED <<names, real, tmp, cls, ignore, stdout, printer, bufOpen, idx,
                   calls, out, err, given, prev>>

\* open(destination_path, "w") truncates; then the sentinels and the header
WriteHead ==
    /\ pc = "open"
    /\ SetDest(File(HeadText(imports), <<>>))
    /\ bufOpen' = TRUE
    /\ printer' = WritelinePrinter(NewPrinter)
    /\ names' = Dir(cls)
    /\ idx' = 1
    /\ pc' = "members"
    /\ UNCHANGED <<cls, ignore, stdout, imports, calls, out, err, given, prev>>

MemberSkip ==
    /\ pc = "members"
    /\ idx <= Len(names)
    /\ Skipped(names[idx], ignore)
    /\ idx' = idx + 1
    /\ UNCHANGED <<names, real, tmp, cls, ignore, stdout, pc, imports, printer,
                   bufOpen, calls, out, err, given, prev>>

MemberMeth ==
    /\ pc = "members"
    /\ idx <= Len(names)
    /\ LET name == names[idx]
           meth == GetAttr(cls, name)
       IN  /\ ~Skipped(name, ignore)
           /\ meth.callable
           /\ ReceiverOk(Unwrap(meth))
           /\ printer' = WriteIndentedBlock(printer, FuncText(name, Unwrap(meth)))
    /\ idx' = idx + 1
    /\ UNCHANGED <<names, real, tmp, cls, ignore, stdout, pc, imports, bufOpen,
                   calls, out, err, given, prev>>

\* the assert of _generate_stub_for_meth fails: the with block closes buf,
\* the printer's buffered lines are never written
MemberAssert ==
    /\ pc = "members"
    /\ idx <= Len(names)
    /\ LET name == names[idx]
           meth == GetAttr(cls, name)
       IN  /\ ~Skipped(name, ignore)
           /\ meth.callable
           /\ ~ReceiverOk(Unwrap(meth))
    /\ Raise("AssertionError")
    /\ UNCHANGED <<names, real, tmp, cls, ignore, stdout, imports, printer, idx,
                   calls, out, given, prev>>

MemberAttr ==
    /\ pc = "members"
    /\ idx <= Len(names)
    /\ LET name == names[idx]
           meth == GetAttr(cls, name)
       IN  /\ ~Skipped(name, ignore)
           /\ ~meth.callable
           /\ SetDest(File(Dest.lines \o WritelineText(printer, AttrText(name)),
                           Dest.passes))
    /\ printer' = WritelinePrinter(printer)
    /\ idx' = idx + 1
    /\ UNCHANGED <<names, cls, ignore, stdout, pc, imports, bufOpen, calls, out,
                   err, given, prev>>

\* printer.close() flushes the buffered lines; leaving the with closes buf
ClosePrinter ==
    /\ pc = "members"
    /\ idx > Len(names)
    /\ SetDest(File(Dest.lines \o printer.line_buffer, Dest.passes))
    /\ printer' = [printer EXCEPT !.line_buffer = <<>>]
    /\ bufOpen' = FALSE
    /\ pc' = "format"
    /\ UNCHANGED <<names, cls, ignore, stdout, imports, idx, calls, out, err,
                   given, prev>>

Invocation(e) ==
    [entrypoint |-> e, path |-> DestPath(stdout), ignore_output |-> stdout]

\* a console_scripts call that returns
FormatPass ==
    /\ pc = "format"
    /\ LET e == PassOrder[Len(calls) + 1]
           f == ConsoleScripts(Dest, e)
           last == Len(calls) + 1 = Len(PassOrder)
       IN  /\ calls' = Append(calls, Invocation(e))
           /\ SetDest(f)
           /\ pc' = IF ~last THEN "format" ELSE IF stdout THEN "copy" ELSE "done"
    /\ UNCHANGED <<names, cls, ignore, stdout, imports, printer, bufOpen, idx, out,
                   err, given, prev>>

\* a console_scripts call that raises
FormatFails ==
    /\ pc = "format"
    /\ calls' = Append(calls, Invocation(PassOrder[Len(calls) + 1]))
    /\ Raise("FormatterError")
    /\ UNCHANGED <<names, real, tmp, cls, ignore, stdout, imports, printer, idx,
                   out, given, prev>>

\* sys.stdout.write(f_path.read_text())
CopyToStdout ==
    /\ pc = "copy"
    /\ out' = [written |-> TRUE, text |-> tmp]
    /\ pc' = "unlink"
    /\ UNCHANGED <<names, real, tmp, cls, ignore, stdout, imports, printer, bufOpen,
                   idx, calls, err, given, prev>>

CopyFails ==
    /\ pc = "copy"
    /\ Raise("OSError")
    /\ UNCHANGED <<names, real, tmp, cls, ignore, stdout, imports, printer, idx,
                   calls, out, given, prev>>

\* f_path.unlink()
Unlink ==
    /\ pc = "unlink"
    /\ tmp' = NoFile
    /\ pc' = "done"
    /\ UNCHANGED <<names, real, cls, ignore, stdout, imports, printer, bufOpen, idx,
                   calls, out, err, given, prev>>

Next ==
    \/ RunFile
    \/ ReadMissing
    \/ ReadHeader
    \/ WriteHead
    \/ MemberSkip
    \/ MemberMeth
    \/ MemberAssert
    \/ MemberAttr
    \/ ClosePrinter
    \/ FormatPass
    \/ FormatFails
    \/ CopyToStdout
    \/ CopyFails
    \/ Unlink

Spec == Init /\ [][Next]_vars

----------------------------------------------------------------------------
(* Vocabulary of the properties *)

\* the Stub Writer has closed the destination and no pass has been invoked:
\* the destination holds exactly what the Stub Writer wrote
WriterDone == pc = "format" /\ calls = <<>>

\* the name a line declares, "" for a line that declares nothing
DeclOf(line) ==
    IF Len(line) >= 2 /\ line[1] = "def" THEN line[2]
    ELSE IF Len(line) = 3 /\ line[2] = ":" /\ line[3] = "Any" THEN line[1]
    ELSE ""

IsDef(line) == Len(line) >= 2 /\ line[1] = "def"

\* the names declared by a text, in the order of their declarations
DeclNames(lines) ==
    LET ds == SelectSeq(lines, LAMBDA l : DeclOf(l) /= "")
    IN  [i \in DOMAIN ds |-> DeclOf(ds[i])]

\* the member names that are to be declared, in the order given
Public(ns) ==
    SelectSeq(ns, LAMBDA n : ~StartsWithUnderscore(n) /\ n \notin ignore)

Range(f) == { f[i] : i \in DOMAIN f }

\* the member names that are to be declared
PublicNames ==
    { n \in NamesOf(cls) : ~StartsWithUnderscore(n) /\ n \notin ignore }

StrictlySorted(ns) ==
    \A i, j \in DOMAIN ns : i < j => Rank(ns[i]) < Rank(ns[j])

NoTrailingSpace(ls) ==
    \A i \in DOMAIN ls : Len(ls[i]) = 0 \/ ls[i][Len(ls[i])] /= "SP"

----------------------------------------------------------------------------
(* C1: in streaming mode the real stub file is never changed by any step of  *)
(* the run, every formatting pass is invoked on the transient file, the      *)
(* generated text is in the transient file, and what is written to standard  *)
(* output is the transient file's content after both passes.                 *)

C1_StreamingState ==
    stdout =>
        /\ \A i \in DOMAIN calls : calls[i].path = "tmp"
        /\ pc \in {"members", "format", "copy", "unlink"} =>
              /\ tmp.exists
              /\ Len(tmp.lines) >= 1
              /\ tmp.lines[1] = OpenLine
        /\ out.written =>
              /\ out.text.exists
              /\ out.text.passes = <<"zimports", "black">>
              /\ Range(DeclNames(out.text.lines)) = PublicNames
              /\ pc = "unlink" => out.text = tmp

\* C1: that predicate holds in every state, and no step of a streaming run
\* changes the real stub file
C1_StreamingNonMutation ==
    /\ [] C1_StreamingState
    /\ [][stdout' => real' = real]_vars

C1_Witness ==
    /\ stdout
    /\ pc = "done"
    /\ out.written
    /\ real.exists
    /\ Len(out.text.lines) > 5

----------------------------------------------------------------------------
(* C2: once a streaming run_file has returned or raised, no transient file   *)
(* remains.                                                                  *)

C2_TransientRemovedOnEveryExit ==
    (stdout /\ pc \in {"done", "raised"}) => ~tmp.exists

----------------------------------------------------------------------------
(* C3 as stated: the artifact that an in-place regeneration writes for an    *)
(* artifact whose header block is H (lines without trailing whitespace)      *)
(* holds exactly H between the sentinels.                                    *)

C3_HeaderPreservedForAnyHeader ==
    (WriterDone /\ ~stdout /\ given.state = "framed" /\ NoTrailingSpace(given.H))
        => /\ HeaderBlock(real).state = "framed"
           /\ HeaderBlock(real).H = given.H

(* C3 amended: when the opening sentinel line is the only line before the    *)
(* closing sentinel line that starts with the text of a sentinel, the        *)
(* artifact the Stub Writer writes holds exactly H between the sentinels,    *)
(* whatever the members of the class are.                                    *)

C3_HeaderPreserved ==
    (/\ WriterDone
     /\ ~stdout
     /\ given.state = "framed"
     /\ NoTrailingSpace(given.H)
     /\ given.plain)
        => /\ HeaderBlock(real).state = "framed"
           /\ HeaderBlock(real).H = given.H
           /\ HeaderBlock(real).plain
           /\ imports = given.H

C3_Witness ==
    /\ WriterDone /\ ~stdout
    /\ given.state = "framed"
    /\ given.plain
    /\ given.H = << <<"x">>, <<"y">> >>
    /\ Len(DeclNames(real.lines)) > 0

----------------------------------------------------------------------------
(* C4 as stated: when the source artifact does not exist or holds no opening *)
(* sentinel line, generation does not fail at the read: the header block is  *)
(* taken to be empty and the sentinels are written.                          *)

C4_FirstTimeNeverFails ==
    (given.state \in {"missing", "nomarker"} /\ pc \notin {"idle", "read"})
        => /\ err /= "FileNotFoundError"
           /\ imports = <<>>

(* C4 amended: when the source artifact exists and holds no opening sentinel *)
(* line, the header block is taken to be empty and the destination gets the  *)
(* two sentinels with nothing between them, followed by the declarations;    *)
(* when the source artifact does not exist, the read raises                  *)
(* FileNotFoundError, nothing is written and no pass is invoked.             *)

C4_FirstTimeGeneration ==
    /\ (given.state = "nomarker" /\ pc \notin {"idle", "read"}) =>
          /\ err /= "FileNotFoundError"
          /\ imports = <<>>
    /\ (given.state = "nomarker" /\ WriterDone) =>
          /\ Len(Dest.lines) >= 2
          /\ Dest.lines[1] = OpenLine
          /\ Dest.lines[2] = EndLine
          /\ Range(DeclNames(Dest.lines)) = PublicNames
    /\ (given.state = "missing" /\ pc \notin {"idle", "read"}) =>
          /\ pc = "raised"
          /\ err = "FileNotFoundError"
          /\ ~real.exists
          /\ calls = <<>>
          /\ ~out.written

C4_Witness ==
    /\ given.state = "nomarker"
    /\ WriterDone /\ ~stdout
    /\ real.lines[3] = Blank
    /\ Len(DeclNames(real.lines)) > 0

----------------------------------------------------------------------------
DeclLines(lines) == SelectSeq(lines, LAMBDA l : DeclOf(l) /= "")

(* C5: the names the Stub Writer declares are never '_'-prefixed, never in    *)
(* the exclusion set and never declared twice; once the Stub Writer has      *)
(* written the artifact they are exactly the other member names, a def block *)
(* for a callable member and a single '<name>: Any' line for any other.      *)
C5_ExclusionEnforced ==
    (pc = "members" \/ WriterDone) =>
        LET ds == DeclLines(Dest.lines \o printer.line_buffer)
        IN  /\ \A i \in DOMAIN ds :
                  /\ ~StartsWithUnderscore(DeclOf(ds[i]))
                  /\ DeclOf(ds[i]) \notin ignore
                  /\ DeclOf(ds[i]) \in NamesOf(cls)
                  /\ IsDef(ds[i]) <=> GetAttr(cls, DeclOf(ds[i])).callable
                  /\ \A j \in DOMAIN ds : DeclOf(ds[i]) = DeclOf(ds[j]) => i = j
            /\ WriterDone =>
                  { DeclOf(ds[i]) : i \in DOMAIN ds } = PublicNames

C5_Witness ==
    /\ WriterDone /\ ~stdout
    /\ NamesOf(cls) = {"_proxy", "config"}
    /\ "config" \in ignore
    /\ real.exists

----------------------------------------------------------------------------
(* C6: the import pass is invoked only once every declaration is written and *)
(* the destination closed, the style pass only after the import pass has     *)
(* returned, no pass is invoked twice, and when the import pass fails the    *)
(* style pass is not invoked and the failure leaves generate_pyi_for_proxy.  *)

C6_PassOrdering ==
    /\ Len(calls) <= 2
    /\ \A i, j \in DOMAIN calls :
          calls[i].entrypoint = calls[j].entrypoint => i = j
    /\ calls /= <<>> =>
          /\ calls[1].entrypoint = "zimports"
          /\ ~bufOpen
          /\ printer.line_buffer = <<>>
          /\ Dest.exists => Range(DeclNames(Dest.lines)) = PublicNames
    /\ Len(calls) = 2 =>
          /\ calls[2].entrypoint = "black"
          /\ Dest.exists =>
                (Len(Dest.passes) >= 1 /\ Dest.passes[1] = "zimports")
    /\ (err = "FormatterError" /\ Len(calls) = 1) =>
          /\ pc = "raised"
          /\ Dest.passes = <<>>
    /\ (pc \in {"copy", "unlink", "done"}) =>
          [i \in DOMAIN calls |-> calls[i].entrypoint] = <<"zimports", "black">>

C6_Witness ==
    /\ pc = "raised"
    /\ err = "FormatterError"
    /\ Len(calls) = 1
    /\ Len(DeclNames(Dest.lines)) > 1

----------------------------------------------------------------------------
(* C7: an in-place regeneration that follows a successful in-place           *)
(* regeneration of the same class, with the same exclusion set and program   *)
(* name, leaves the artifact identical to the one the earlier run left.      *)

C7_Idempotent ==
    (pc = "done" /\ ~stdout /\ prev.known) => real = prev.file

C7_Witness ==
    /\ pc = "done" /\ ~stdout
    /\ prev.known
    /\ Len(imports) > 0
    /\ Len(DeclNames(real.lines)) > 1

----------------------------------------------------------------------------
Malformed(n) ==
    LET m == GetAttr(cls, n)
        sig == m.chain[Len(m.chain)]
    IN  /\ m.callable
        /\ \/ Len(sig.params) = 0
           \/ sig.params[1].name \notin {"self", "cls"}

\* positions, in the list the member loop iterates over, of the retained
\* members with a malformed binding
MalformedAt ==
    { i \in DOMAIN names : names[i] \in PublicNames /\ Malformed(names[i]) }

(* C8: a retained callable member whose unwrapped signature has no first     *)
(* positional parameter named self or cls stops the generation at that       *)
(* member with an AssertionError: the loop never goes past it, no            *)
(* declaration of it or of a later member is written, no pass is invoked,    *)
(* nothing is streamed, and the run ends raised.                             *)
C8_MalformedBindingAborts ==
    /\ (pc = "raised" /\ err = "AssertionError") => idx \in MalformedAt
    /\ \A i \in MalformedAt :
          /\ pc \notin {"format", "copy", "unlink", "done"}
          /\ calls = <<>>
          /\ ~out.written
          /\ pc = "members" => idx <= i
          /\ (pc = "raised" /\ real.exists) =>
                /\ err = "AssertionError"
                /\ idx <= i
                /\ ~bufOpen
          /\ Dest.exists =>
                \A j \in i..Len(names) :
                    names[j] \notin
                        Range(DeclNames(Dest.lines \o printer.line_buffer))

C8_Witness ==
    /\ pc = "raised"
    /\ err = "AssertionError"
    /\ idx = 2
    /\ Len(names) = 2
    /\ ~stdout

----------------------------------------------------------------------------
DeclaredOrder == [i \in DOMAIN cls |-> cls[i].name]

(* C9 as stated: the declarations appear in the class's declaration order.   *)
C9_DeclarationOrder ==
    WriterDone => DeclNames(Dest.lines) = Public(DeclaredOrder)

(* C9 amended: the declarations appear in the order of dir(cls), which is    *)
(* the sorted order of the names whatever the declaration order is.          *)

C9_SortedOrder ==
    WriterDone =>
        /\ StrictlySorted(DeclNames(Dest.lines))
        /\ Range(DeclNames(Dest.lines)) = Range(Public(DeclaredOrder))

C9_Witness ==
    /\ WriterDone /\ ~stdout
    /\ DeclaredOrder = <<"get_impl", "alter">>
    /\ DeclNames(real.lines) = <<"alter", "get_impl">>

----------------------------------------------------------------------------
RuleAnnotation(a) ==
    SubNoneType(IF a.module \in {"builtins", ClsModule}
                THEN <<a.qualname>>
                ELSE <<a.module, ".", a.qualname>>)

RuleParam(p) ==
    IF p.ann.present THEN <<p.name, ":">> \o RuleAnnotation(p.ann) ELSE <<p.name>>

RECURSIVE RuleParams(_)
RuleParams(ps) ==
    IF Len(ps) = 0 THEN <<>>
    ELSE IF Len(ps) = 1 THEN RuleParam(ps[1])
    ELSE RuleParam(ps[1]) \o <<",">> \o RuleParams(Tail(ps))

RuleDef(n) ==
    LET m == GetAttr(cls, n)
        sig == m.chain[Len(m.chain)]
    IN  <<"def", n, "(">> \o RuleParams(Tail(sig.params)) \o <<")">>
            \o (IF sig.ret.present THEN <<"->">> \o RuleAnnotation(sig.ret)
                ELSE <<>>)
            \o <<":">>

(* C10: an annotation that is a class outside typing is rendered as its bare *)
(* qualified name when its module is builtins or the module of the class     *)
(* being stubbed, and as <module>.<qualified name> otherwise.                *)
C10_ConcreteTypeRule ==
    Dest.exists =>
        \A i \in DOMAIN Dest.lines :
            IsDef(Dest.lines[i]) => Dest.lines[i] = RuleDef(DeclOf(Dest.lines[i]))

====
